---- MODULE Spec2Model ----
(***************************************************************************)
(* Edumate: the message pipeline of backend/api/chat_routes.py             *)
(* (send_message) and the rule-based services of                           *)
(* backend/services/ai_services.py, rasa_service.py, language_service.py.  *)
(*                                                                         *)
(* Texts are TLA+ strings; "in" of Python is substring search (Contains).  *)
(* Scores are kept in halves (score2 = 2 * score) because a pattern adds   *)
(* weight * 1.5; confidences are kept in twentieths (conf20 = 20 * conf),  *)
(* so min(score / 10, 1.0) is Min(score2, 20), 0.3 is 6, 0.5 is 10 and     *)
(* 0.7 is 14.  Scores are multiples of 0.5, hence exact as floats, and     *)
(* k/10 rounds to the same double as the literal it is compared with, so   *)
(* the comparisons of the code agree with the integer ones.                *)
(* A Python value that may be None is a sequence: <<>> is None, <<v>> is v.*)
(***************************************************************************)
EXTENDS Integers, Sequences, FiniteSets, TLC

VARIABLES
    \* ---- direct calls of the services (SpecApi)
    call,       \* the last call made: [op, arg]
    ret,        \* what it returned
    ncalls,     \* calls made so far
    store,      \* the objects built at construction: [knowledge_base, college_intents]
    \* ---- one send_message run after the other (Spec, SpecFault)
    pc,                 \* position in send_message
    nreq,               \* requests received so far
    data,               \* request.get_json()
    message_text,
    detected_language,
    preferred_language,
    session_id,
    intent_result,
    bot_response_text,
    rasa_intent,
    rasa_confidence,
    response_source,
    rasa_response,      \* what rasa_service.send_message returned
    raised,             \* the exception on its way to the handler of line 254
    staged,             \* db.session: records added, not yet committed
    committed,          \* the database
    response,           \* what send_message returned: [status, body]
    trace               \* calls of the collaborators made by this run, in order

apiVars == <<call, ret, ncalls, store>>
runVars == <<pc, nreq, data, message_text, detected_language, preferred_language,
             session_id, intent_result, bot_response_text, rasa_intent,
             rasa_confidence, response_source, rasa_response, raised, staged,
             committed, response, trace>>
vars == <<call, ret, ncalls, store, pc, nreq, data, message_text, detected_language,
          preferred_language, session_id, intent_result, bot_response_text,
          rasa_intent, rasa_confidence, response_source, rasa_response, raised,
          staged, committed, response, trace>>

(***************************************************************************)
(* Bounds                                                                  *)
(***************************************************************************)
MaxCalls == 2
MaxRequests == 2

(***************************************************************************)
(* Python values                                                           *)
(***************************************************************************)
None == <<>>
Some(v) == <<v>>
Min(a, b) == IF a < b THEN a ELSE b

\* x in text, for strings
Contains(text, x) ==
    \E i \in 1..(Len(text) - Len(x) + 1) : SubSeq(text, i, i + Len(x) - 1) = x

LowerChar(c) ==
    CASE c = "A" -> "a" [] c = "B" -> "b" [] c = "C" -> "c" [] c = "D" -> "d"
      [] c = "E" -> "e" [] c = "F" -> "f" [] c = "G" -> "g" [] c = "H" -> "h"
      [] c = "I" -> "i" [] c = "J" -> "j" [] c = "K" -> "k" [] c = "L" -> "l"
      [] c = "M" -> "m" [] c = "N" -> "n" [] c = "O" -> "o" [] c = "P" -> "p"
      [] c = "Q" -> "q" [] c = "R" -> "r" [] c = "S" -> "s" [] c = "T" -> "t"
      [] c = "U" -> "u" [] c = "V" -> "v" [] c = "W" -> "w" [] c = "X" -> "x"
      [] c = "Y" -> "y" [] c = "Z" -> "z" [] OTHER -> c

\* str.lower(): every character lower-cased (by halves, to keep the depth of
\* the recursion logarithmic in the length)
RECURSIVE lower(_)
lower(s) ==
    IF Len(s) = 0 THEN ""
    ELSE IF Len(s) = 1 THEN LowerChar(s)
    ELSE LET h == Len(s) \div 2
         IN  lower(SubSeq(s, 1, h)) \o lower(SubSeq(s, h + 1, Len(s)))

IsSpace(c) == c \in {" ", "\t", "\n", "\r"}

RECURSIVE lstrip(_)
lstrip(s) ==
    IF s # "" /\ IsSpace(SubSeq(s, 1, 1)) THEN lstrip(SubSeq(s, 2, Len(s))) ELSE s

RECURSIVE rstrip(_)
rstrip(s) ==
    IF s # "" /\ IsSpace(SubSeq(s, Len(s), Len(s)))
    THEN rstrip(SubSeq(s, 1, Len(s) - 1)) ELSE s

\* str.strip()
strip(s) == rstrip(lstrip(s))

(***************************************************************************)
(* CollegeIntentClassifier                                                 *)
(***************************************************************************)
\* The keys of self.college_intents in insertion order (dict iteration order).
IntentOrder ==
    <<"admission_inquiry", "fee_inquiry", "course_information", "placement_inquiry",
      "hostel_accommodation", "faculty_information", "campus_facilities",
      "academic_schedule">>

\* self.college_intents.  Every pattern of the table is a concatenation of
\* literals and one group of literal alternatives, so a pattern is kept as the
\* sequence of the literal strings it matches and re.search is "one of them
\* occurs in the text".
college_intents ==
    [admission_inquiry |->
        [keywords |-> <<"admission", "apply", "entrance", "eligibility",
                        "requirements", "form", "application">>,
         patterns |-> << <<"how to apply", "how to get admission">>,
                         <<"admission process", "admission procedure">>,
                         <<"entrance exam">> >>,
         weight |-> 3],
     fee_inquiry |->
        [keywords |-> <<"fee", "cost", "price", "payment", "scholarship",
                        "installment", "tuition">>,
         patterns |-> << <<"how much does it cost", "how much fees">>,
                         <<"fee structure">>,
                         <<"total cost">> >>,
         weight |-> 3],
     course_information |->
        [keywords |-> <<"course", "program", "degree", "subjects", "curriculum",
                        "syllabus", "duration">>,
         patterns |-> << <<"what courses">>,
                         <<"available programs">>,
                         <<"course details">> >>,
         weight |-> 3],
     placement_inquiry |->
        [keywords |-> <<"placement", "job", "career", "salary", "companies",
                        "recruitment", "internship">>,
         patterns |-> << <<"placement record", "placement statistics">>,
                         <<"job opportunities">>,
                         <<"career prospects">> >>,
         weight |-> 3],
     hostel_accommodation |->
        [keywords |-> <<"hostel", "accommodation", "room", "mess", "residence",
                        "boarding">>,
         patterns |-> << <<"hostel facilities", "hostel booking">>,
                         <<"accommodation available">>,
                         <<"room allocation">> >>,
         weight |-> 2],
     faculty_information |->
        [keywords |-> <<"faculty", "professor", "teacher", "staff", "instructor",
                        "qualification">>,
         patterns |-> << <<"faculty details", "faculty information">>,
                         <<"about professors">>,
                         <<"teaching staff">> >>,
         weight |-> 2],
     campus_facilities |->
        [keywords |-> <<"library", "lab", "sports", "canteen", "wifi", "transport",
                        "medical">>,
         patterns |-> << <<"campus facilities">>,
                         <<"library timings">>,
                         <<"sports complex">> >>,
         weight |-> 2],
     academic_schedule |->
        [keywords |-> <<"timetable", "schedule", "exam", "result", "calendar",
                        "semester">>,
         patterns |-> << <<"class schedule", "class timetable">>,
                         <<"exam dates", "exam schedule">>,
                         <<"academic calendar">> >>,
         weight |-> 2]]

\* re.search(pattern, text_lower)
re_search(pattern, text) == \E k \in 1..Len(pattern) : Contains(text, pattern[k])

\* The keyword loop: score += weight for each keyword in the text (in halves).
RECURSIVE KeywordScore(_, _, _)
KeywordScore(intent_data, text_lower, k) ==
    IF k > Len(intent_data.keywords) THEN 0
    ELSE (IF Contains(text_lower, intent_data.keywords[k])
          THEN 2 * intent_data.weight ELSE 0)
         + KeywordScore(intent_data, text_lower, k + 1)

PatternBonusBug(weight) == 2 * weight
\* weight * 1.5, in halves
PatternBonus(weight) == 3 * weight

\* The pattern loop: score += weight * 1.5 for each pattern that matches.
RECURSIVE PatternScore(_, _, _)
PatternScore(intent_data, text_lower, k) ==
    IF k > Len(intent_data.patterns) THEN 0
    ELSE (IF re_search(intent_data.patterns[k], text_lower)
          THEN PatternBonus(intent_data.weight) ELSE 0)
         + PatternScore(intent_data, text_lower, k + 1)

\* intent_scores, a mapping from intent name to score (in halves)
IntentScores(text_lower) ==
    [name \in {IntentOrder[i] : i \in 1..Len(IntentOrder)} |->
        KeywordScore(college_intents[name], text_lower, 1)
        + PatternScore(college_intents[name], text_lower, 1)]

RECURSIVE MaxItemBug(_, _, _)
MaxItemBug(scores, best, i) ==
    IF i > Len(IntentOrder) THEN best
    ELSE MaxItemBug(scores,
                    IF scores[IntentOrder[i]] >= scores[best] THEN IntentOrder[i] ELSE best,
                    i + 1)

\* max(intent_scores.items(), key=lambda x: x[1]): the first item, in
\* iteration order, that no later item exceeds strictly.
RECURSIVE MaxItem(_, _, _)
MaxItem(scores, best, i) ==
    IF i > Len(IntentOrder) THEN best
    ELSE MaxItem(scores,
                 IF scores[IntentOrder[i]] > scores[best] THEN IntentOrder[i] ELSE best,
                 i + 1)

TopIntent(scores) == MaxItem(scores, IntentOrder[1], 2)

\* 1.0, in twentieths
FullConfidence == 20
\* the minimum confidence threshold 0.3, in twentieths
MinConfidence == 6
\* the confidence 0.5 of general_college_inquiry, in twentieths
GeneralConfidence == 10

\* min(top_intent[1] / 10, 1.0)
Normalize(score2) == Min(score2, FullConfidence)

ClearsThresholdBug(confidence) == confidence > MinConfidence
\* confidence >= 0.3
ClearsThreshold(confidence) == confidence >= MinConfidence

college_keywords == <<"college", "university", "student", "education", "academic">>

\* any(keyword in text_lower for keyword in college_keywords)
AnyCollegeKeyword(text_lower) ==
    \E k \in 1..Len(college_keywords) : Contains(text_lower, college_keywords[k])

ErrorResultBug ==
    [intent |-> "error", confidence |-> 0, error |-> "AttributeError",
     is_college_related |-> TRUE]
\* the result of the except branch of classify_intent
ErrorResult ==
    [intent |-> "error", confidence |-> 0, error |-> "AttributeError",
     is_college_related |-> FALSE]

\* classify_intent(text).  text is [isStr, str]: a value that is no string has
\* no lower(), the AttributeError is caught by the except branch.
classify_intent(text) ==
    IF ~text.isStr THEN ErrorResult
    ELSE
        LET text_lower == lower(text.str)
            intent_scores == IntentScores(text_lower)
            top_intent == TopIntent(intent_scores)
            confidence == Normalize(intent_scores[top_intent])
        IN  IF ClearsThreshold(confidence)
            THEN [intent |-> top_intent, confidence |-> confidence,
                  all_scores |-> intent_scores, is_college_related |-> TRUE]
            ELSE IF AnyCollegeKeyword(text_lower)
            THEN [intent |-> "general_college_inquiry",
                  confidence |-> GeneralConfidence,
                  all_scores |-> intent_scores, is_college_related |-> TRUE]
            ELSE [intent |-> "unknown", confidence |-> 0,
                  all_scores |-> intent_scores, is_college_related |-> FALSE]

(***************************************************************************)
(* CollegeKnowledgeBase                                                    *)
(***************************************************************************)
\* Python values of the knowledge base, tagged with their type.  A dict is the
\* sequence of its (key, value) items in insertion order.
S(s) == [t |-> "str", v |-> s]
N(n) == [t |-> "int", v |-> n]
L(items) == [t |-> "list", v |-> items]
D(items) == [t |-> "dict", v |-> items]

\* key in d
HasKey(d, key) == \E i \in 1..Len(d.v) : d.v[i][1] = key
\* d[key]
Get(d, key) == d.v[CHOOSE i \in 1..Len(d.v) : d.v[i][1] = key][2]
KeysBug(d) == [i \in 1..(Len(d.v) - 1) |-> d.v[i][1]]
\* list(d.keys())
Keys(d) == [i \in 1..Len(d.v) |-> d.v[i][1]]

\* self.knowledge_base
knowledge_base ==
    D(<< <<"courses", D(<<
            <<"btech", D(<<
                <<"full_name", S("Bachelor of Technology")>>,
                <<"duration", S("4 years")>>,
                <<"specializations", L(<<S("Computer Science"), S("Electronics"),
                    S("Mechanical"), S("Civil"), S("Electrical")>>)>>,
                <<"eligibility", S("12th with PCM, minimum 75%")>>,
                <<"fee_range", S("1.5-2.5 lakh per year")>>,
                <<"career_options", L(<<S("Software Engineer"), S("Data Scientist"),
                    S("System Administrator")>>)>> >>)>>,
            <<"mtech", D(<<
                <<"full_name", S("Master of Technology")>>,
                <<"duration", S("2 years")>>,
                <<"specializations", L(<<S("AI/ML"), S("VLSI"), S("Power Systems"),
                    S("Structural Engineering")>>)>>,
                <<"eligibility", S("BE/BTech with 60% minimum")>>,
                <<"fee_range", S("2-3 lakh per year")>>,
                <<"career_options", L(<<S("Research Scientist"), S("Technical Lead"),
                    S("Product Manager")>>)>> >>)>>,
            <<"mba", D(<<
                <<"full_name", S("Master of Business Administration")>>,
                <<"duration", S("2 years")>>,
                <<"specializations", L(<<S("Marketing"), S("Finance"), S("HR"),
                    S("Operations"), S("Strategy")>>)>>,
                <<"eligibility", S("Any graduate with 50% + CAT/MAT")>>,
                <<"fee_range", S("3-5 lakh per year")>>,
                <<"career_options", L(<<S("Manager"), S("Consultant"),
                    S("Business Analyst"), S("Entrepreneur")>>)>> >>)>> >>)>>,
         <<"admission_process", D(<<
            <<"application_period", S("May 1 - June 30")>>,
            <<"entrance_exam",
                S("JEE Main/Advanced for BTech, GATE for MTech, CAT/MAT for MBA")>>,
            <<"selection_criteria", S("Entrance exam score + 12th marks + Interview")>>,
            <<"documents_required", L(<<S("10th and 12th mark sheets"),
                S("Transfer certificate"), S("Character certificate"),
                S("Caste certificate (if applicable)"), S("Income certificate"),
                S("Passport size photos")>>)>> >>)>>,
         <<"facilities", D(<<
            <<"library", D(<<
                <<"books", S("50,000+ books and journals")>>,
                <<"digital", S("Access to IEEE, ACM, Springer databases")>>,
                <<"timings",
                    S("8:00 AM - 10:00 PM (Mon-Sat), 9:00 AM - 6:00 PM (Sun)")>>,
                <<"features", L(<<S("Silent reading zones"),
                    S("Group discussion rooms"), S("Computer terminals")>>)>> >>)>>,
            <<"hostel", D(<<
                <<"capacity", S("2000 students")>>,
                <<"room_types", L(<<S("Single"), S("Double"),
                    S("Triple occupancy")>>)>>,
                <<"facilities", L(<<S("Wi-Fi"), S("Mess"), S("Recreation room"),
                    S("Gym"), S("Medical room")>>)>>,
                <<"fees", S("Rs. 4,500-8,000 per month")>>,
                <<"mess_charges", S("Rs. 3,500 per month")>> >>)>>,
            <<"labs", D(<<
                <<"computer_labs", S("5 labs with 200+ computers")>>,
                <<"specialized_labs", L(<<S("VLSI Lab"), S("Robotics Lab"),
                    S("IoT Lab"), S("AI/ML Lab")>>)>>,
                <<"equipment", S("Latest software and hardware")>>,
                <<"access_hours", S("9:00 AM - 8:00 PM")>> >>)>> >>)>>,
         <<"placement_stats", D(<<
            <<"overall_percentage", N(95)>>,
            <<"average_package", S("8.5 LPA")>>,
            <<"highest_package", S("45 LPA")>>,
            <<"top_recruiters", L(<<S("Microsoft"), S("Google"), S("Amazon"),
                S("TCS"), S("Infosys"), S("Wipro"), S("Accenture"), S("IBM"),
                S("Flipkart"), S("Paytm")>>)>>,
            <<"placement_process", L(<<S("Pre-placement talks (September)"),
                S("Resume preparation workshops"), S("Mock interviews"),
                S("Campus drives (November-March)"),
                S("Final placements")>>)>> >>)>> >>)

\* json.dumps(value) with the default separators; no string of the knowledge
\* base holds a character that JSON escapes.
RECURSIVE json_dumps(_), DumpList(_, _), DumpItems(_, _)
json_dumps(x) ==
    CASE x.t = "str" -> "\"" \o x.v \o "\""
      [] x.t = "int" -> ToString(x.v)
      [] x.t = "list" -> "[" \o DumpList(x.v, 1) \o "]"
      [] x.t = "dict" -> "{" \o DumpItems(x.v, 1) \o "}"

DumpList(items, i) ==
    IF i > Len(items) THEN ""
    ELSE json_dumps(items[i]) \o (IF i < Len(items) THEN ", " ELSE "")
         \o DumpList(items, i + 1)

DumpItems(items, i) ==
    IF i > Len(items) THEN ""
    ELSE "\"" \o items[i][1] \o "\": " \o json_dumps(items[i][2])
         \o (IF i < Len(items) THEN ", " ELSE "") \o DumpItems(items, i + 1)

\* str.split(): the maximal runs of characters that are no whitespace
RECURSIVE SplitFrom(_, _, _)
SplitFrom(s, i, word) ==
    IF i > Len(s) THEN (IF word = "" THEN <<>> ELSE <<word>>)
    ELSE IF IsSpace(SubSeq(s, i, i))
         THEN (IF word = "" THEN <<>> ELSE <<word>>) \o SplitFrom(s, i + 1, "")
         ELSE SplitFrom(s, i + 1, word \o SubSeq(s, i, i))

split(s) == SplitFrom(s, 1, "")

HasSubcategoryBug(category, subcategory) ==
    /\ subcategory # None
    /\ subcategory[1] # ""
    /\ HasKey(Get(knowledge_base, category), subcategory[1])
    /\ HasKey(knowledge_base, subcategory[1])
\* subcategory and subcategory in self.knowledge_base[category]
HasSubcategory(category, subcategory) ==
    /\ subcategory # None
    /\ subcategory[1] # ""
    /\ HasKey(Get(knowledge_base, category), subcategory[1])

\* get_information(category, subcategory); subcategory is None or Some(name)
get_information(category, subcategory) ==
    IF HasKey(knowledge_base, category)
    THEN IF HasSubcategory(category, subcategory)
         THEN [success |-> TRUE,
               data |-> Get(Get(knowledge_base, category), subcategory[1]),
               category |-> category,
               subcategory |-> subcategory[1]]
         ELSE [success |-> TRUE,
               data |-> Get(knowledge_base, category),
               category |-> category]
    ELSE [success |-> FALSE,
          error |-> "Category " \o category \o " not found",
          available_categories |-> Keys(knowledge_base)]

\* The (category, subcategory, data) of the two nested loops of
\* search_information, in iteration order, each with its searchable text
\* json.dumps(subcategory_data).lower().
RECURSIVE SubEntries(_, _, _)
SubEntries(category, category_data, j) ==
    IF j > Len(category_data.v) THEN <<>>
    ELSE <<[category |-> category,
            subcategory |-> category_data.v[j][1],
            data |-> category_data.v[j][2],
            searchable_text |-> lower(json_dumps(category_data.v[j][2]))]>>
         \o SubEntries(category, category_data, j + 1)

RECURSIVE AllEntries(_)
AllEntries(i) ==
    IF i > Len(knowledge_base.v) THEN <<>>
    ELSE (IF knowledge_base.v[i][2].t = "dict"
          THEN SubEntries(knowledge_base.v[i][1], knowledge_base.v[i][2], 1)
          ELSE <<>>)
         \o AllEntries(i + 1)

Entries == AllEntries(1)

\* a count that takes a word of the query once, however often it is repeated
RECURSIVE MatchesBug(_, _, _)
MatchesBug(query_words, searchable_text, k) ==
    IF k > Len(query_words) THEN 0
    ELSE (IF /\ Contains(searchable_text, query_words[k])
             /\ \A j \in 1..(k - 1) : query_words[j] # query_words[k]
          THEN 1 ELSE 0)
         + MatchesBug(query_words, searchable_text, k + 1)

\* sum(1 for word in query_words if word in searchable_text)
RECURSIVE Matches(_, _, _)
Matches(query_words, searchable_text, k) ==
    IF k > Len(query_words) THEN 0
    ELSE (IF Contains(searchable_text, query_words[k]) THEN 1 ELSE 0)
         + Matches(query_words, searchable_text, k + 1)

\* The results list before sorting.  relevance_score = matches / len(query_words)
\* is kept as the pair of the two numbers.
RECURSIVE Hits(_, _)
Hits(query_words, e) ==
    IF e > Len(Entries) THEN <<>>
    ELSE LET matches == Matches(query_words, Entries[e].searchable_text, 1)
         IN  (IF matches > 0
              THEN <<[category |-> Entries[e].category,
                      subcategory |-> Entries[e].subcategory,
                      data |-> Entries[e].data,
                      matches |-> matches,
                      words |-> Len(query_words)]>>
              ELSE <<>>)
             \o Hits(query_words, e + 1)

MoreRelevantBug(a, b) == a.matches * b.words >= b.matches * a.words
\* a.relevance_score > b.relevance_score
MoreRelevant(a, b) == a.matches * b.words > b.matches * a.words

\* list.sort(key=relevance_score, reverse=True): stable, so a result is placed
\* behind the results that are at least as relevant.
RECURSIVE InsertSorted(_, _)
InsertSorted(sorted, r) ==
    IF sorted = <<>> THEN <<r>>
    ELSE IF MoreRelevant(r, Head(sorted)) THEN <<r>> \o sorted
         ELSE <<Head(sorted)>> \o InsertSorted(Tail(sorted), r)

RECURSIVE SortByRelevance(_, _)
SortByRelevance(results, n) ==
    IF n = 0 THEN <<>> ELSE InsertSorted(SortByRelevance(results, n - 1), results[n])

\* results[:5]
TopMatches == 5

\* search_information(query)
search_information(query) ==
    LET results == Hits(split(lower(query)), 1)
        sorted == SortByRelevance(results, Len(results))
    IN  SubSeq(sorted, 1, Min(TopMatches, Len(sorted)))

(***************************************************************************)
(* CollegeResponseGenerator.  The literal text of the templates is abridged *)
(* (no emoji, no markdown); every placeholder is filled as the code fills  *)
(* it.                                                                     *)
(***************************************************************************)
UpperChar(c) ==
    CASE c = "a" -> "A" [] c = "b" -> "B" [] c = "c" -> "C" [] c = "d" -> "D"
      [] c = "e" -> "E" [] c = "f" -> "F" [] c = "g" -> "G" [] c = "h" -> "H"
      [] c = "i" -> "I" [] c = "j" -> "J" [] c = "k" -> "K" [] c = "l" -> "L"
      [] c = "m" -> "M" [] c = "n" -> "N" [] c = "o" -> "O" [] c = "p" -> "P"
      [] c = "q" -> "Q" [] c = "r" -> "R" [] c = "s" -> "S" [] c = "t" -> "T"
      [] c = "u" -> "U" [] c = "v" -> "V" [] c = "w" -> "W" [] c = "x" -> "X"
      [] c = "y" -> "Y" [] c = "z" -> "Z" [] OTHER -> c

IsCased(c) == UpperChar(c) # c \/ LowerChar(c) # c

\* str.title(): a cased character is upper-cased when it follows a character
\* that is not cased (or starts the string) and lower-cased otherwise
RECURSIVE TitleFrom(_, _, _)
TitleFrom(s, i, afterCased) ==
    IF i > Len(s) THEN ""
    ELSE LET c == SubSeq(s, i, i)
         IN  (IF afterCased THEN LowerChar(c) ELSE UpperChar(c))
             \o TitleFrom(s, i + 1, IsCased(c))

title(s) == TitleFrom(s, 1, FALSE)

\* str.replace('_', ' ')
RECURSIVE ReplaceUnderscores(_, _)
ReplaceUnderscores(s, i) ==
    IF i > Len(s) THEN ""
    ELSE (IF SubSeq(s, i, i) = "_" THEN " " ELSE SubSeq(s, i, i))
         \o ReplaceUnderscores(s, i + 1)

\* str(value) of a string or a number
Str(x) == IF x.t = "int" THEN ToString(x.v) ELSE x.v

\* sep.join(prefix + str(v) for v in items)
RECURSIVE Join(_, _, _, _)
Join(items, sep, prefix, i) ==
    IF i > Len(items) THEN ""
    ELSE prefix \o Str(items[i]) \o (IF i < Len(items) THEN sep ELSE "")
         \o Join(items, sep, prefix, i + 1)

TakeBug(items, n) == items
\* items[:n]
Take(items, n) == SubSeq(items, 1, Min(n, Len(items)))

\* _extract_course_from_query(query)
AnyTerm(query_lower, terms) == \E k \in 1..Len(terms) : Contains(query_lower, terms[k])

\* the same tests with the second and the third exchanged
extract_course_from_queryBug(query) ==
    LET query_lower == lower(query)
    IN  IF AnyTerm(query_lower, <<"btech", "b.tech", "bachelor", "engineering">>)
        THEN "btech"
        ELSE IF AnyTerm(query_lower, <<"mba", "management", "business">>)
        THEN "mba"
        ELSE IF AnyTerm(query_lower, <<"mtech", "m.tech", "master", "technology">>)
        THEN "mtech"
        ELSE "btech"

extract_course_from_query(query) ==
    LET query_lower == lower(query)
    IN  IF AnyTerm(query_lower, <<"btech", "b.tech", "bachelor", "engineering">>)
        THEN "btech"
        ELSE IF AnyTerm(query_lower, <<"mtech", "m.tech", "master", "technology">>)
        THEN "mtech"
        ELSE IF AnyTerm(query_lower, <<"mba", "management", "business">>)
        THEN "mba"
        ELSE "btech"

\* _generate_admission_response()
generate_admission_response ==
    LET admission_info == get_information("admission_process", None)
    IN  IF admission_info.success
        THEN LET d == admission_info.data
             IN  "Admission Information: Application Period: "
                 \o Str(Get(d, "application_period"))
                 \o " Entrance Exam: " \o Str(Get(d, "entrance_exam"))
                 \o " Selection Process: " \o Str(Get(d, "selection_criteria"))
                 \o " Required Documents:\n"
                 \o Join(Get(d, "documents_required").v, "\n", "* ", 1)
                 \o " Next Steps: ... Contact: admissions@college.edu"
        ELSE "Please contact our admissions office for detailed admission information."

\* _generate_course_response(course)
generate_course_response(course) ==
    LET course_info == get_information("courses", Some(course))
    IN  IF course_info.success
        THEN LET d == course_info.data
             IN  Str(Get(d, "full_name")) \o " Details: Duration: "
                 \o Str(Get(d, "duration"))
                 \o " Specializations Available:\n"
                 \o Join(Get(d, "specializations").v, "\n", "* ", 1)
                 \o " Eligibility: " \o Str(Get(d, "eligibility"))
                 \o " Fee Range: " \o Str(Get(d, "fee_range"))
                 \o " Career Opportunities:\n"
                 \o Join(Get(d, "career_options").v, "\n", "* ", 1)
                 \o " Would you like more details about any specific specialization?"
        ELSE "I don't have detailed information about " \o course
             \o ". Please contact our academic office for specific course details."

\* _generate_fee_response(course)
generate_fee_response(course) ==
    LET course_info == get_information("courses", Some(course))
    IN  IF course_info.success
        THEN LET d == course_info.data
             IN  "Fee Structure for " \o Str(Get(d, "full_name"))
                 \o ": Annual Fees: " \o Str(Get(d, "fee_range"))
                 \o " Additional Costs: ... Payment Options: ..."
                 \o " Scholarships Available: ..."
        ELSE "Please contact our accounts office for detailed fee information."

\* _generate_placement_response()
generate_placement_response ==
    LET placement_info == get_information("placement_stats", None)
    IN  IF placement_info.success
        THEN LET d == placement_info.data
             IN  "Placement Statistics: Placement Rate: "
                 \o Str(Get(d, "overall_percentage"))
                 \o "% Average Package: Rs. " \o Str(Get(d, "average_package"))
                 \o " Highest Package: Rs. " \o Str(Get(d, "highest_package"))
                 \o " Top Recruiters:\n"
                 \o Join(Take(Get(d, "top_recruiters").v, 5), "\n", "* ", 1)
                 \o " Placement Process:\n"
                 \o Join(Get(d, "placement_process").v, "\n", "* ", 1)
                 \o " Industry Connections: ..."
        ELSE "Please contact our placement cell for current placement statistics."

\* _generate_hostel_response()
generate_hostel_response ==
    LET hostel_info == get_information("facilities", Some("hostel"))
    IN  IF hostel_info.success
        THEN LET d == hostel_info.data
             IN  "Hostel Accommodation: Capacity: " \o Str(Get(d, "capacity"))
                 \o " Room Types: " \o Join(Get(d, "room_types").v, ", ", "", 1)
                 \o " Facilities:\n" \o Join(Get(d, "facilities").v, "\n", "* ", 1)
                 \o " Fees: Accommodation: " \o Str(Get(d, "fees"))
                 \o " Mess charges: " \o Str(Get(d, "mess_charges"))
                 \o " Booking Process: ... Contact Hostel Office: hostel@college.edu"
        ELSE "Please contact the hostel office for accommodation details."

\* _generate_facilities_response()
generate_facilities_response ==
    LET facilities_info == get_information("facilities", None)
    IN  IF facilities_info.success
        THEN LET d == facilities_info.data
                 library == Get(d, "library")
                 labs == Get(d, "labs")
                 hostel == Get(d, "hostel")
             IN  "Campus Facilities: Library: " \o Str(Get(library, "books"))
                 \o " Digital access: " \o Str(Get(library, "digital"))
                 \o " Timings: " \o Str(Get(library, "timings"))
                 \o " Computer Labs: " \o Str(Get(labs, "computer_labs"))
                 \o " Specialized labs: "
                 \o Join(Get(labs, "specialized_labs").v, ", ", "", 1)
                 \o " Access: " \o Str(Get(labs, "access_hours"))
                 \o " Hostel: Capacity: " \o Str(Get(hostel, "capacity"))
                 \o " Types: " \o Join(Get(hostel, "room_types").v, ", ", "", 1)
                 \o " Additional Facilities: ..."
        ELSE "Please visit our campus to see all the facilities we offer."

\* the lines "key: value" of one result of the search
RECURSIVE DataLines(_, _)
DataLines(items, i) ==
    IF i > Len(items) THEN ""
    ELSE LET value == items[i][2]
             shown == IF value.t = "list"
                      THEN Join(Take(value.v, 3), ", ", "", 1)
                      ELSE Str(value)
         IN  "* " \o title(ReplaceUnderscores(items[i][1], 1)) \o ": " \o shown \o "\n"
             \o DataLines(items, i + 1)

RECURSIVE ResultBlocks(_, _)
ResultBlocks(search_results, i) ==
    IF i > Len(search_results) THEN ""
    ELSE ToString(i) \o ". " \o title(search_results[i].category) \o ":\n"
         \o (IF search_results[i].data.t = "dict"
             THEN DataLines(search_results[i].data.v, 1) ELSE "")
         \o "\n" \o ResultBlocks(search_results, i + 1)

\* _generate_search_based_response(search_results, query)
generate_search_based_response(search_results, query) ==
    "Here's what I found related to '" \o query \o "':\n\n"
    \o ResultBlocks(Take(search_results, 3), 1)
    \o "Would you like more specific information about any of these topics?"

\* _generate_default_response()
generate_default_response ==
    "I'm here to help with college information! Popular topics I can assist with:"
    \o " Admissions, Fee structure, Courses, Placement, Hostel, Campus facilities,"
    \o " Academic calendar. Try asking me: ... Contact our office: info@college.edu"

generation_error_textBug == generate_default_response
\* the text returned by the except branch of generate_response (line 420)
generation_error_text ==
    "I apologize, but I'm having trouble processing your request right now."
    \o " Please try asking about specific topics like admissions, courses, fees,"
    \o " or placements."

\* generate_response(intent, query).  query is [isStr, str]: a value that is no
\* string has no lower(); in _extract_course_from_query the AttributeError
\* reaches the except branch of generate_response, in search_information it is
\* caught by search_information itself, which returns [].
generate_response(intent, query) ==
    IF intent = "admission_inquiry" THEN generate_admission_response
    ELSE IF intent = "course_information"
    THEN (IF query.isStr
          THEN generate_course_response(extract_course_from_query(query.str))
          ELSE generation_error_text)
    ELSE IF intent = "fee_inquiry"
    THEN (IF query.isStr
          THEN generate_fee_response(extract_course_from_query(query.str))
          ELSE generation_error_text)
    ELSE IF intent = "placement_inquiry" THEN generate_placement_response
    ELSE IF intent = "hostel_accommodation" THEN generate_hostel_response
    ELSE IF intent = "campus_facilities" THEN generate_facilities_response
    ELSE LET search_results ==
                IF query.isStr THEN search_information(query.str) ELSE <<>>
         IN  IF search_results # <<>>
             THEN generate_search_based_response(search_results, query.str)
             ELSE generate_default_response

(***************************************************************************)
(* The objects built at construction, self.college_intents (lines 21-62)   *)
(* and self.knowledge_base (lines 137-214), are kept in the variable store. *)
(* What an operation leaves of them is what its assignments leave: every    *)
(* operation assigns to its locals only (intent_scores, results, response), *)
(* and the values it takes from the two objects are read, sliced or         *)
(* formatted into new values.                                               *)
(***************************************************************************)
\* classify_intent(text): lines 75-122 read self.college_intents
AfterClassifyIntent(s, text) == s

\* get_information(category, subcategory): lines 228-247 return the entry
AfterGetInformation(s, category, subcategory) == s

AfterSearchInformationBug(s, query) ==
    [s EXCEPT !.knowledge_base =
        D(SubSeq(s.knowledge_base.v, 1, Min(TopMatches, Len(s.knowledge_base.v)) - 1))]
\* search_information(query): lines 267-292 append to, sort and slice the list
\* results, which is local
AfterSearchInformation(s, query) == s

\* generate_response(intent, query): the lookups and the search of its branch
AfterGenerateResponse(s, intent, query) ==
    IF intent = "admission_inquiry" THEN AfterGetInformation(s, "admission_process", None)
    ELSE IF intent \in {"course_information", "fee_inquiry"}
    THEN (IF query.isStr
          THEN AfterGetInformation(s, "courses",
                                   Some(extract_course_from_query(query.str)))
          ELSE s)
    ELSE IF intent = "placement_inquiry"
    THEN AfterGetInformation(s, "placement_stats", None)
    ELSE IF intent = "hostel_accommodation"
    THEN AfterGetInformation(s, "facilities", Some("hostel"))
    ELSE IF intent = "campus_facilities" THEN AfterGetInformation(s, "facilities", None)
    ELSE AfterSearchInformation(s, query)

(***************************************************************************)
(* Inputs                                                                  *)
(***************************************************************************)
\* The messages of the requests (data['message'], before strip()).
Messages ==
    {"hello there",
     "  What is the fee for mtech ",
     "hostel facilities room",
     "How to apply for admission",
     "college timings",
     "mess menu",
     "fee structure and exam schedule",
     "placement statistics job",
     "exam schedule and semester result",
     "information about coffee",
     "   ",
     ""}

IntentNames == {IntentOrder[i] : i \in 1..Len(IntentOrder)}

\* Every keyword and every literal of a pattern of the table, as a text.
TableTexts ==
    UNION {{college_intents[n].keywords[k] : k \in 1..Len(college_intents[n].keywords)}
           : n \in IntentNames}
    \cup UNION {UNION {{college_intents[n].patterns[p][a]
                        : a \in 1..Len(college_intents[n].patterns[p])}
                       : p \in 1..Len(college_intents[n].patterns)}
                : n \in IntentNames}

\* The arguments of the direct calls of classify_intent: strings, and values
\* that are no strings (None, a number).
ClassifyArgs ==
    {[isStr |-> TRUE, str |-> t] :
        t \in Messages \cup TableTexts
              \cup {"course fee", "student mess", "Hostel Booking ROOM MESS",
                    "university", "academic calendar of the college",
                    "job application course", "library room"}}
    \cup {[isStr |-> FALSE, str |-> "None"], [isStr |-> FALSE, str |-> "42"]}

(***************************************************************************)
(* LanguageService.  The translation backend (googletrans) is outside the  *)
(* repository: each call of it either raises or yields a text, kept as the *)
(* source text marked with the two language codes.                         *)
(***************************************************************************)
supported_languages == <<"en", "hi", "ta", "te", "ml", "kn", "bn">>

\* What self.translator.detect(text) does: it raises, or it detects a language.
DetectOutcomes ==
    {[raises |-> TRUE, lang |-> ""], [raises |-> FALSE, lang |-> "en"],
     [raises |-> FALSE, lang |-> "hi"], [raises |-> FALSE, lang |-> "fr"]}

\* detect_language(text)
detect_language(outcome) ==
    IF outcome.raises THEN "en"
    ELSE IF \E i \in 1..Len(supported_languages) : supported_languages[i] = outcome.lang
    THEN outcome.lang
    ELSE "en"

\* result.text of self.translator.translate(text, src=src, dest=dest)
Translated(text, src, dest) == "[" \o src \o ">" \o dest \o "] " \o text

\* translate_for_rasa(text, source_lang); raises: whether the backend raises
translate_for_rasa(text, source_lang, raises) ==
    IF source_lang = "en" THEN text
    ELSE IF raises THEN text
    ELSE Translated(text, source_lang, "en")

\* translate_from_rasa(text, target_lang); raises: whether the backend raises
translate_from_rasa(text, target_lang, raises) ==
    IF target_lang = "en" THEN text
    ELSE IF raises THEN text
    ELSE Translated(text, "en", target_lang)

(***************************************************************************)
(* RasaService                                                             *)
(***************************************************************************)
\* What requests.post does: it raises (timeout, connection error), or it
\* returns a status code and a JSON list of messages.  A message has the keys
\* 'text' and 'intent' or lacks them (None); an intent is [name, confidence].
EngineMessages ==
    {[text |-> Some("You can pay the fee online."),
      intent |-> Some([name |-> Some("ask_fee"), confidence |-> Some(17)])],
     [text |-> Some("Here is what I know."), intent |-> None],
     [text |-> None,
      intent |-> Some([name |-> Some("chitchat"), confidence |-> Some(0)])],
     [text |-> Some(""), intent |-> Some([name |-> None, confidence |-> None])]}

HttpOutcomes ==
    {[raises |-> TRUE, status_code |-> 0, json |-> <<>>],
     [raises |-> FALSE, status_code |-> 500, json |-> <<>>],
     [raises |-> FALSE, status_code |-> 200, json |-> <<>>]}
    \cup {[raises |-> FALSE, status_code |-> 200, json |-> <<m>>] : m \in EngineMessages}

\* RasaService.send_message(message, sender_id, metadata)
rasa_send_message(http) ==
    IF http.raises THEN [success |-> FALSE, error |-> "exception"]
    ELSE IF http.status_code = 200 /\ http.json # <<>>
    THEN LET first == http.json[1]
         IN  [success |-> TRUE,
              message |-> IF first.text = None THEN "No response" ELSE first.text[1],
              intent |-> IF first.intent = None THEN None ELSE first.intent[1].name,
              confidence |->
                  IF first.intent = None THEN None ELSE first.intent[1].confidence]
    ELSE [success |-> FALSE, error |-> "HTTP " \o ToString(http.status_code)]

(***************************************************************************)
(* send_message of chat_routes.py                                          *)
(***************************************************************************)
\* request.get_json(): None, or a dict.  A dict is kept by the keys the route
\* reads: message is None when the key is missing, else Some([isStr, str]);
\* A payload that is a JSON array is kept by its items.
\* session_id is data.get('session_id'); language is None when the key is
\* missing, else Some(value) with value None (null) or Some(code).  user_id and
\* input_type are passed through unread and are left out.
RequestData ==
    {[isNone |-> TRUE]}
    \cup {[isNone |-> FALSE, items |-> <<>>],
          [isNone |-> FALSE, items |-> <<"message">>]}
    \cup {[isNone |-> FALSE, message |-> None, session_id |-> None,
           language |-> Some(Some("hi"))]}
    \cup {[isNone |-> FALSE, message |-> Some(m), session_id |-> s, language |-> l] :
            m \in {[isStr |-> TRUE, str |-> t] : t \in Messages}
                  \cup {[isStr |-> FALSE, str |-> "42"]},
            s \in {None, Some("s1")},
            l \in {None, Some(None), Some(Some("auto")), Some(Some("en")),
                   Some(Some("hi"))}}

restricted_response ==
    "I'm Edumate, your college assistant! I can help you with: Admissions, Fees,"
    \o " Courses, Placement, Hostel. Please ask me about college-related topics!"

error_fallback_text ==
    "I apologize, but I'm having trouble understanding your question. Could you"
    \o " please try asking about specific college topics like admissions, courses,"
    \o " or facilities?"

internal_error_message ==
    "I apologize for the technical difficulty. Please try asking about college"
    \o " admissions, courses, fees, or facilities."

\* 0.7, in twentieths
HighConfidence == 14
\* the confidence 0.5 of the fallbacks, in twentieths
FallbackConfidence == 10

IsHighConfidenceBug(result) == result.confidence > HighConfidence
\* intent_result['confidence'] >= 0.7
IsHighConfidence(result) == result.confidence >= HighConfidence

\* The records of the database
SessionRecord(sid, language) == [kind |-> "session", id |-> sid, language |-> language]
MessageRecord(sid, is_user, n) ==
    [kind |-> "message", session_id |-> sid, is_user_message |-> is_user, request |-> n]
SessionUpdate(sid, n) == [kind |-> "session_update", id |-> sid, request |-> n]
AnalyticsRecord(sid, n) == [kind |-> "analytics", session_id |-> sid, request |-> n]

\* ChatSession.query.filter_by(id=session_id).first() finds a session
SessionExists(sid) == \E r \in committed : r.kind = "session" /\ r.id = sid

locals == <<message_text, detected_language, preferred_language, session_id,
            intent_result, bot_response_text, rasa_intent, rasa_confidence,
            response_source>>

\* A request arrives: the route starts with fresh locals.
Receive ==
    /\ pc \in {"idle", "done"}
    /\ nreq < MaxRequests
    /\ nreq' = nreq + 1
    /\ \E d \in RequestData : data' = d
    /\ message_text' = None
    /\ detected_language' = None
    /\ preferred_language' = None
    /\ session_id' = None
    /\ intent_result' = None
    /\ bot_response_text' = None
    /\ rasa_intent' = None
    /\ rasa_confidence' = None
    /\ response_source' = None
    /\ rasa_response' = None
    /\ raised' = None
    /\ response' = None
    /\ trace' = <<>>
    /\ pc' = "validate"
    /\ UNCHANGED <<staged, committed, call, ret, ncalls, store>>

IsArray(d) == ~d.isNone /\ "items" \in DOMAIN d
\* not data: None, or an empty array
IsFalsy(d) == d.isNone \/ (IsArray(d) /\ d.items = <<>>)
\* 'message' in data: a key of the dict, an item of the array
HasMessage(d) ==
    IF IsArray(d) THEN \E i \in 1..Len(d.items) : d.items[i] = "message"
    ELSE d.message # None

\* lines 32-40
Validate ==
    /\ pc = "validate"
    /\ IF IsFalsy(data) \/ ~HasMessage(data)
       THEN /\ response' = [status |-> 400, body |-> [error |-> "Message is required"]]
            /\ pc' = "done"
            /\ UNCHANGED <<message_text, raised>>
       ELSE IF IsArray(data)
       THEN \* data['message'] of a list: TypeError
            /\ raised' = Some("TypeError")
            /\ pc' = "except"
            /\ UNCHANGED <<message_text, response>>
       ELSE IF ~data.message[1].isStr
       THEN \* data['message'].strip() of a value that is no string
            /\ raised' = Some("AttributeError")
            /\ pc' = "except"
            /\ UNCHANGED <<message_text, response>>
       ELSE LET text == strip(data.message[1].str)
            IN  /\ message_text' = Some(text)
                /\ IF text = ""
                   THEN /\ response' = [status |-> 400,
                                        body |-> [error |-> "Message cannot be empty"]]
                        /\ pc' = "done"
                   ELSE /\ pc' = "resolve_language"
                        /\ UNCHANGED response
                /\ UNCHANGED raised
    /\ UNCHANGED <<nreq, data, detected_language, preferred_language, session_id,
                   intent_result, bot_response_text, rasa_intent, rasa_confidence,
                   response_source, rasa_response, staged, committed, trace, call,
                   ret, ncalls, store>>

\* data.get('language', 'en')
DeclaredLanguage == IF data.language = None THEN Some("en") ELSE data.language[1]

\* lines 43-51
ResolveLanguage ==
    /\ pc = "resolve_language"
    /\ \E outcome \in DetectOutcomes :
        LET detected == detect_language(outcome)
            declared == DeclaredLanguage
        IN  /\ detected_language' = Some(detected)
            /\ preferred_language' =
                IF declared = None \/ declared = Some("") \/ declared = Some("auto")
                THEN Some(detected) ELSE declared
    /\ session_id' = data.session_id
    /\ trace' = Append(trace, "detect_language")
    /\ pc' = "open_session"
    /\ UNCHANGED <<nreq, data, message_text, intent_result, bot_response_text,
                   rasa_intent, rasa_confidence, response_source, rasa_response, raised,
                   staged, committed, response, call, ret, ncalls, store>>

\* str(uuid.uuid4()): an identifier no session has
NewSessionId == "uuid-" \o ToString(nreq)

\* lines 53-75; the query of line 57 may raise
OpenSession ==
    /\ pc = "open_session"
    /\ LET sid == IF session_id = None \/ session_id = Some("")
                  THEN NewSessionId ELSE session_id[1]
       IN  /\ session_id' = Some(sid)
           /\ \E query_raises \in BOOLEAN :
                IF query_raises
                THEN /\ raised' = Some("OperationalError")
                     /\ pc' = "except"
                     /\ UNCHANGED staged
                ELSE /\ staged' = staged
                            \cup (IF SessionExists(sid) THEN {}
                                  ELSE {SessionRecord(sid, preferred_language[1])})
                            \cup {MessageRecord(sid, TRUE, nreq)}
                     /\ pc' = "classify"
                     /\ UNCHANGED raised
    /\ UNCHANGED <<nreq, data, message_text, detected_language, preferred_language,
                   intent_result, bot_response_text, rasa_intent, rasa_confidence,
                   response_source, rasa_response, committed, response, trace, call,
                   ret, ncalls, store>>

ClassifyBug ==
    /\ pc = "classify"
    /\ intent_result' = classify_intent([isStr |-> TRUE, str |-> message_text[1]])
    /\ trace' = Append(trace, "classify_intent")
    /\ pc' = "route"
    /\ UNCHANGED <<nreq, data, message_text, detected_language, preferred_language,
                   session_id, bot_response_text, rasa_intent, rasa_confidence,
                   response_source, rasa_response, raised, staged, committed,
                   response, call, ret, ncalls>>
    /\ store' = AfterClassifyIntent(store, [isStr |-> TRUE, str |-> message_text[1]])
\* lines 77-80
Classify ==
    /\ pc = "classify"
    /\ intent_result' = classify_intent([isStr |-> TRUE, str |-> message_text[1]])
    /\ trace' = Append(trace, "classify_intent")
    /\ pc' = IF intent_result'.is_college_related THEN "route" ELSE "restricted"
    /\ UNCHANGED <<nreq, data, message_text, detected_language, preferred_language,
                   session_id, bot_response_text, rasa_intent, rasa_confidence,
                   response_source, rasa_response, raised, staged, committed,
                   response, call, ret, ncalls>>
    /\ store' = AfterClassifyIntent(store, [isStr |-> TRUE, str |-> message_text[1]])

\* db.session.commit(): the staged records reach the database
Commit(records) == committed \cup records

\* lines 80-119: the restricted reply; the commit of line 109 may raise
Restricted ==
    /\ pc = "restricted"
    /\ \E translate_raises \in BOOLEAN, commit_raises \in BOOLEAN :
        LET translate == preferred_language[1] # "en"
            text == IF translate
                    THEN translate_from_rasa(restricted_response,
                                             preferred_language[1], translate_raises)
                    ELSE restricted_response
            records == staged \cup {MessageRecord(session_id[1], FALSE, nreq)}
        IN  /\ trace' = trace
                    \o (IF translate THEN <<"translate_from_rasa", "translator.translate">>
                        ELSE <<>>)
                    \o <<"commit">>
            /\ IF commit_raises
               THEN /\ staged' = records
                    /\ raised' = Some("OperationalError")
                    /\ pc' = "except"
                    /\ UNCHANGED <<committed, response>>
               ELSE /\ committed' = Commit(records)
                    /\ staged' = {}
                    /\ response' =
                        [status |-> 200,
                         body |-> [success |-> TRUE,
                                   message |-> text,
                                   session_id |-> session_id[1],
                                   language |-> preferred_language[1],
                                   intent |-> "non_college_topic",
                                   restricted |-> TRUE]]
                    /\ pc' = "done"
                    /\ UNCHANGED raised
    /\ UNCHANGED <<nreq, data, locals, rasa_response, call, ret, ncalls, store>>

\* lines 126-138: the response generator answers
RouteLocal ==
    /\ pc = "route"
    /\ IsHighConfidence(intent_result)
    /\ bot_response_text' = Some(generate_response(intent_result.intent,
                                [isStr |-> TRUE, str |-> message_text[1]]))
    /\ rasa_intent' = Some(intent_result.intent)
    /\ rasa_confidence' = Some(intent_result.confidence)
    /\ response_source' = Some("college_ai")
    /\ trace' = Append(trace, "generate_response")
    /\ pc' = "translate"
    /\ store' = AfterGenerateResponse(store, intent_result.intent,
                                      [isStr |-> TRUE, str |-> message_text[1]])
    /\ UNCHANGED <<nreq, data, message_text, detected_language, preferred_language,
                   session_id, intent_result, rasa_response, raised, staged,
                   committed, response, call, ret, ncalls>>

\* x or y, for a string x that may be None or ''
OrText(x, y) == IF x = None \/ x = Some("") THEN y ELSE x

\* x or y, for a number x that may be None or 0
OrNumber(x, y) == IF x = None \/ x = Some(0) THEN y ELSE x

\* the calls of translate_for_rasa and of rasa_service.send_message
EngineCalls ==
    <<"translate_for_rasa">>
    \o (IF detected_language[1] # "en" THEN <<"translator.translate">> ELSE <<>>)
    \o <<"rasa_send_message">>

EngineResultBug(reply, classified) ==
    IF reply.success
    THEN [text |-> Some(reply.message),
          intent |-> OrText(reply.intent, Some(classified.intent)),
          confidence |-> OrNumber(reply.confidence, Some(classified.confidence)),
          source |-> Some("rasa")]
    ELSE [text |-> Some(""),
          intent |-> Some("fallback"),
          confidence |-> Some(FallbackConfidence),
          source |-> Some("college_ai_fallback")]
\* lines 159-169: what the route makes of the reply of the engine adapter
EngineResult(reply, classified) ==
    IF reply.success
    THEN [text |-> Some(reply.message),
          intent |-> OrText(reply.intent, Some(classified.intent)),
          confidence |-> OrNumber(reply.confidence, Some(classified.confidence)),
          source |-> Some("rasa")]
    ELSE [text |-> Some(generate_default_response),
          intent |-> Some("fallback"),
          confidence |-> Some(FallbackConfidence),
          source |-> Some("college_ai_fallback")]

\* lines 140-169: the external engine answers, or the default response
RouteEngine ==
    /\ pc = "route"
    /\ ~IsHighConfidence(intent_result)
    /\ \E http \in HttpOutcomes :
        LET reply == rasa_send_message(http)
            result == EngineResult(reply, intent_result)
        IN  /\ rasa_response' = reply
            /\ bot_response_text' = result.text
            /\ rasa_intent' = result.intent
            /\ rasa_confidence' = result.confidence
            /\ response_source' = result.source
            /\ trace' = trace \o EngineCalls
                        \o (IF reply.success THEN <<>>
                            ELSE <<"generate_default_response">>)
    /\ pc' = "translate"
    /\ UNCHANGED <<nreq, data, message_text, detected_language, preferred_language,
                   session_id, intent_result, raised, staged, committed, response,
                   call, ret, ncalls, store>>

\* lines 192-198
TranslateReply ==
    /\ pc = "translate"
    /\ IF preferred_language[1] # "en"
       THEN /\ \E translate_raises \in BOOLEAN :
                bot_response_text' =
                    Some(translate_from_rasa(bot_response_text[1],
                                             preferred_language[1], translate_raises))
            /\ trace' = trace \o <<"translate_from_rasa", "translator.translate">>
       ELSE UNCHANGED <<bot_response_text, trace>>
    /\ pc' = "persist"
    /\ UNCHANGED <<nreq, data, message_text, detected_language, preferred_language,
                   session_id, intent_result, rasa_intent, rasa_confidence,
                   rasa_response, response_source, raised, staged, committed,
                   response, call, ret, ncalls, store>>

\* lines 200-252; the commit of line 237 may raise
Persist ==
    /\ pc = "persist"
    /\ \E commit_raises \in BOOLEAN :
        LET records == staged \cup {MessageRecord(session_id[1], FALSE, nreq),
                                    SessionUpdate(session_id[1], nreq),
                                    AnalyticsRecord(session_id[1], nreq)}
        IN  IF commit_raises
            THEN /\ staged' = records
                 /\ raised' = Some("OperationalError")
                 /\ pc' = "except"
                 /\ UNCHANGED <<committed, response>>
            ELSE /\ committed' = Commit(records)
                 /\ staged' = {}
                 /\ response' =
                        [status |-> 200,
                         body |-> [success |-> TRUE,
                                   message |-> bot_response_text[1],
                                   session_id |-> session_id[1],
                                   language |-> preferred_language[1],
                                   detected_language |-> detected_language[1],
                                   intent |-> rasa_intent,
                                   confidence |-> rasa_confidence,
                                   response_source |-> response_source[1],
                                   college_intent |-> intent_result.intent,
                                   college_confidence |-> intent_result.confidence]]
                 /\ pc' = "done"
                 /\ UNCHANGED raised
    /\ trace' = Append(trace, "commit")
    /\ UNCHANGED <<nreq, data, locals, rasa_response, call, ret, ncalls, store>>

\* the handler without db.session.rollback()
HandleErrorBug ==
    /\ pc = "except"
    /\ response' = [status |-> 500,
                    body |-> [success |-> FALSE,
                              error |-> "Internal server error",
                              message |-> internal_error_message]]
    /\ trace' = Append(trace, "rollback")
    /\ pc' = "done"
    /\ UNCHANGED <<nreq, data, locals, rasa_response, raised, staged, committed, call,
                   ret, ncalls, store>>

\* lines 254-261: the handler of every exception of the route
HandleError ==
    /\ pc = "except"
    /\ staged' = {}
    /\ response' = [status |-> 500,
                    body |-> [success |-> FALSE,
                              error |-> "Internal server error",
                              message |-> internal_error_message]]
    /\ trace' = Append(trace, "rollback")
    /\ pc' = "done"
    /\ UNCHANGED <<nreq, data, locals, rasa_response, raised, committed, call, ret,
                   ncalls, store>>

(***************************************************************************)
(* The handler of lines 171-190.  No statement of lines 124-169 raises     *)
(* with the services of this repository (generate_response, the language   *)
(* service and the engine adapter catch what they raise), so the handler is *)
(* reached only when a statement of the block is made to raise: SpecFault   *)
(* adds that step.                                                          *)
(***************************************************************************)
\* a statement of lines 126-138 raises after generate_response was called
FaultInLocal ==
    /\ pc = "route"
    /\ IsHighConfidence(intent_result)
    /\ raised' = Some("ai_error")
    /\ trace' = Append(trace, "generate_response")
    /\ pc' = "ai_except"
    /\ store' = AfterGenerateResponse(store, intent_result.intent,
                                      [isStr |-> TRUE, str |-> message_text[1]])
    /\ UNCHANGED <<nreq, data, locals, rasa_response, staged, committed, response,
                   call, ret, ncalls>>

\* a statement of lines 140-169 raises after the engine was called
FaultInEngine ==
    /\ pc = "route"
    /\ ~IsHighConfidence(intent_result)
    /\ \E http \in HttpOutcomes : rasa_response' = rasa_send_message(http)
    /\ raised' = Some("ai_error")
    /\ trace' = trace \o EngineCalls
    /\ pc' = "ai_except"
    /\ UNCHANGED <<nreq, data, locals, staged, committed, response, call, ret, ncalls, store>>

ExceptResultBug(reply) ==
    IF reply.success
    THEN [text |-> Some(reply.message),
          intent |-> reply.intent,
          confidence |-> reply.confidence,
          source |-> Some("rasa_fallback")]
    ELSE [text |-> Some(error_fallback_text),
          intent |-> Some("fallback"),
          confidence |-> Some(FallbackConfidence),
          source |-> Some("error_fallback")]
\* lines 181-190: what the handler makes of the reply of the engine adapter;
\* the reply of a success holds the keys 'intent' and 'confidence', so the
\* defaults of the two get() are not used
ExceptResult(reply) ==
    IF reply.success
    THEN [text |-> Some(reply.message),
          intent |-> reply.intent,
          confidence |-> reply.confidence,
          source |-> Some("rasa_fallback")]
    ELSE [text |-> Some(error_fallback_text),
          intent |-> Some("error"),
          confidence |-> Some(0),
          source |-> Some("error_fallback")]

\* lines 171-190
AiExcept ==
    /\ pc = "ai_except"
    /\ \E http \in HttpOutcomes :
        LET reply == rasa_send_message(http)
            result == ExceptResult(reply)
        IN  /\ rasa_response' = reply
            /\ bot_response_text' = result.text
            /\ rasa_intent' = result.intent
            /\ rasa_confidence' = result.confidence
            /\ response_source' = result.source
    /\ trace' = trace \o EngineCalls
    /\ pc' = "translate"
    /\ UNCHANGED <<nreq, data, message_text, detected_language, preferred_language,
                   session_id, intent_result, raised, staged, committed, response,
                   call, ret, ncalls, store>>

(***************************************************************************)
(* Direct calls of the services                                            *)
(***************************************************************************)
ApiClassify ==
    /\ ncalls < MaxCalls
    /\ \E text \in ClassifyArgs :
        /\ call' = [op |-> "classify_intent", arg |-> text]
        /\ ret' = classify_intent(text)
        /\ store' = AfterClassifyIntent(store, text)
    /\ ncalls' = ncalls + 1
    /\ UNCHANGED runVars

\* The category names of the lookups: the four of the knowledge base and names
\* that are no top-level key (the name of a subcategory, another case, '').
Categories ==
    {"courses", "admission_process", "facilities", "placement_stats",
     "nonexistent_category", "btech", "Courses", ""}
\* The subcategory of a lookup: omitted (None), empty, a subcategory of some
\* category, the name of a category, a name that occurs nowhere.
Subcategories ==
    {None, Some(""), Some("btech"), Some("mtech"), Some("mba"), Some("hostel"),
     Some("library"), Some("documents_required"), Some("top_recruiters"),
     Some("courses"), Some("nonexistent")}

ApiGetInformation ==
    /\ ncalls < MaxCalls
    /\ \E category \in Categories, subcategory \in Subcategories :
        /\ call' = [op |-> "get_information", arg |-> <<category, subcategory>>]
        /\ ret' = get_information(category, subcategory)
        /\ store' = AfterGetInformation(store, category, subcategory)
    /\ ncalls' = ncalls + 1
    /\ UNCHANGED runVars

\* The queries of the searches.
Queries ==
    {"fee", "a books", "A  Books ", "Computer Science", "hostel room wifi", "year year books",
     "exam test", "library books hours zzz", "placement", "hostel facilities room",
     "wifi a", "zzz", "", "   "}

ApiSearch ==
    /\ ncalls < MaxCalls
    /\ \E query \in Queries :
        /\ call' = [op |-> "search_information", arg |-> query]
        /\ ret' = search_information(query)
        /\ store' = AfterSearchInformation(store, query)
    /\ ncalls' = ncalls + 1
    /\ UNCHANGED runVars

\* The intents of the direct calls of generate_response: the intents of the
\* table and 'unknown'.
GenIntents == IntentNames \cup {"unknown"}
\* The queries of the direct calls of generate_response: strings, and values
\* that are no strings (None, a number).
GenArgs ==
    {[isStr |-> TRUE, str |-> t] :
        t \in {"What is the fee for mtech", "mba fees", "B.Tech cost", "M.Tech FEE",
               "fee for management or engineering", "tuition for the master program",
               "business school price", "how much fees", "a books", "zzz", ""}}
    \cup {[isStr |-> FALSE, str |-> "None"], [isStr |-> FALSE, str |-> "42"]}

ApiGenerate ==
    /\ ncalls < MaxCalls
    /\ \E intent \in GenIntents, query \in GenArgs :
        /\ call' = [op |-> "generate_response", arg |-> <<intent, query>>]
        /\ ret' = generate_response(intent, query)
        /\ store' = AfterGenerateResponse(store, intent, query)
    /\ ncalls' = ncalls + 1
    /\ UNCHANGED runVars

(***************************************************************************)
(* The state after construction                                            *)
(***************************************************************************)
NoCall == [op |-> "none", arg |-> None]

InitApi ==
    /\ call = NoCall
    /\ ret = None
    /\ ncalls = 0
    /\ store = [knowledge_base |-> knowledge_base, college_intents |-> college_intents]

InitRun ==
    /\ pc = "idle"
    /\ nreq = 0
    /\ data = None
    /\ message_text = None
    /\ detected_language = None
    /\ preferred_language = None
    /\ session_id = None
    /\ intent_result = None
    /\ bot_response_text = None
    /\ rasa_intent = None
    /\ rasa_confidence = None
    /\ response_source = None
    /\ rasa_response = None
    /\ raised = None
    /\ staged = {}
    /\ committed = {}
    /\ response = None
    /\ trace = <<>>

Init == InitApi /\ InitRun

NextApi == ApiClassify

SpecApi == Init /\ [][NextApi]_vars

NextKb ==
    \/ ApiGetInformation
    \/ ApiSearch

SpecKb == Init /\ [][NextKb]_vars

\* The texts of the direct calls of _extract_course_from_query: aliases of one
\* course, of several courses, in either case of letters, and of none.
ExtractArgs ==
    {"B.Tech cost", "M.TECH fee", "MBA", "master of business",
     "management or engineering", "information technology",
     "technology management", "bachelor and master", "Business School",
     "mtech or mba or btech", "hello", ""}

ApiExtractCourse ==
    /\ ncalls < MaxCalls
    /\ \E query \in ExtractArgs :
        /\ call' = [op |-> "extract_course_from_query", arg |-> query]
        /\ ret' = extract_course_from_query(query)
    /\ ncalls' = ncalls + 1
    /\ UNCHANGED <<store, runVars>>

NextGen == ApiGenerate \/ ApiExtractCourse

SpecGen == Init /\ [][NextGen]_vars

\* the direct calls of the four operations of the services, in any order
NextStore ==
    \/ ApiClassify
    \/ ApiGetInformation
    \/ ApiSearch
    \/ ApiGenerate

SpecStore == Init /\ [][NextStore]_vars

Next ==
    \/ Receive
    \/ Validate
    \/ ResolveLanguage
    \/ OpenSession
    \/ Classify
    \/ Restricted
    \/ RouteLocal
    \/ RouteEngine
    \/ TranslateReply
    \/ Persist
    \/ HandleError

Spec == Init /\ [][Next]_vars

NextFault ==
    \/ Next
    \/ FaultInLocal
    \/ FaultInEngine
    \/ AiExcept

SpecFault == Init /\ [][NextFault]_vars

(***************************************************************************)
(* Claims about classify_intent (checked under SpecApi)                    *)
(***************************************************************************)
\* The score of an intent counted from the table, in halves: weight for each
\* keyword of the intent that occurs in the text, weight * 1.5 for each of its
\* patterns that matches.
CountedScore(n, t) ==
    LET d == college_intents[n]
    IN  2 * d.weight * Cardinality({k \in 1..Len(d.keywords) : Contains(t, d.keywords[k])})
        + 3 * d.weight
            * Cardinality({p \in 1..Len(d.patterns) :
                             \E a \in 1..Len(d.patterns[p]) : Contains(t, d.patterns[p][a])})

CountedTop(t) ==
    CHOOSE m \in {CountedScore(n, t) : n \in IntentNames} :
        \A n \in IntentNames : CountedScore(n, t) <= m

ClassifiedString == call.op = "classify_intent" /\ call.arg.isStr
ClassifiedNonString == call.op = "classify_intent" /\ ~call.arg.isStr

\* C8 as claimed: when classify_intent hits an internal fault (a text that is
\* no string), the result it returns has intent "unknown" and is not in-domain.
C8_FaultGivesUnknown ==
    ClassifiedNonString => (ret.intent = "unknown" /\ ~ret.is_college_related)

\* C8 amended: when classify_intent hits an internal fault (a text that is no
\* string), the fault does not propagate: a result is returned, with intent
\* "error", confidence 0, the cause under "error", and in-domain = false.
C8_FaultGivesError ==
    ClassifiedNonString =>
        /\ DOMAIN ret = {"intent", "confidence", "error", "is_college_related"}
        /\ ret.intent = "error"
        /\ ret.confidence = 0
        /\ ~ret.is_college_related

C8_Witness ==
    /\ ClassifiedNonString
    /\ call.arg.str = "None"
    /\ ret.intent = "error"
    /\ ~ret.is_college_related

\* C9: for every text, with c = min(topScore / 10, 1.0), classify_intent
\* returns (an intent of top score, c, in-domain) when c >= 0.3, else
\* (general_college_inquiry, 0.5, in-domain) when the text contains a generic
\* domain keyword, else (unknown, 0, not in-domain); so in-domain holds iff
\* c >= 0.3 or a generic keyword occurs, and the confidence is in [0, 1].
C9_ClassificationDecision ==
    ClassifiedString =>
        LET t == lower(call.arg.str)
            c == Min(CountedTop(t), 20)
            generic == \E w \in {"college", "university", "student", "education",
                                 "academic"} : Contains(t, w)
        IN  /\ ret.confidence \in 0..20
            /\ ret.is_college_related <=> (c >= 6 \/ generic)
            /\ c >= 6 =>
                /\ ret.intent \in IntentNames
                /\ CountedScore(ret.intent, t) = CountedTop(t)
                /\ ret.confidence = c
                /\ ret.is_college_related
            /\ (c < 6 /\ generic) =>
                /\ ret.intent = "general_college_inquiry"
                /\ ret.confidence = 10
                /\ ret.is_college_related
            /\ (c < 6 /\ ~generic) =>
                /\ ret.intent = "unknown"
                /\ ret.confidence = 0
                /\ ~ret.is_college_related

\* A text whose top score is exactly 3 (c = 0.3) is classified in-domain.
C9_Witness ==
    /\ ClassifiedString
    /\ call.arg.str = "course fee"
    /\ ret.intent = "fee_inquiry"
    /\ ret.confidence = 6
    /\ ret.is_college_related

\* C10: for every text and every intent, the raw score of the intent is
\* weight * (number of its keywords that occur in the lower-cased text)
\* + 1.5 * weight * (number of its patterns that match); a text that contains
\* a keyword of an intent gives that intent a score >= its weight.
C10_IntentScoring ==
    ClassifiedString =>
        LET t == lower(call.arg.str)
        IN  \A n \in IntentNames :
                /\ ret.all_scores[n] = CountedScore(n, t)
                /\ (\E k \in 1..Len(college_intents[n].keywords) :
                        Contains(t, college_intents[n].keywords[k]))
                   => ret.all_scores[n] >= 2 * college_intents[n].weight

\* fee: one keyword and one pattern (3 + 4.5); schedule: two keywords and one
\* pattern (2 + 2 + 3).
C10_Witness ==
    /\ ClassifiedString
    /\ call.arg.str = "fee structure and exam schedule"
    /\ ret.all_scores["fee_inquiry"] = 15
    /\ ret.all_scores["academic_schedule"] = 14

\* C11: when two or more intents share the maximum raw score, classify_intent
\* selects the one defined earliest in the definition order admission_inquiry,
\* fee_inquiry, course_information, placement_inquiry, hostel_accommodation,
\* faculty_information, campus_facilities, academic_schedule.
C11_TieBreak ==
    ClassifiedString =>
        LET t == lower(call.arg.str)
            order == <<"admission_inquiry", "fee_inquiry", "course_information",
                       "placement_inquiry", "hostel_accommodation",
                       "faculty_information", "campus_facilities",
                       "academic_schedule">>
            tied == {i \in 1..Len(order) : CountedScore(order[i], t) = CountedTop(t)}
            first == CHOOSE i \in tied : \A j \in tied : i <= j
        IN  Min(CountedTop(t), 20) >= 6 => ret.intent = order[first]

\* admission, course and placement all score 3: the first of them is selected
C11_Witness ==
    /\ ClassifiedString
    /\ call.arg.str = "job application course"
    /\ ret.all_scores["admission_inquiry"] = 6
    /\ ret.all_scores["course_information"] = 6
    /\ ret.all_scores["placement_inquiry"] = 6
    /\ \A n \in IntentNames : ret.all_scores[n] <= 6
    /\ ret.intent = "admission_inquiry"

(***************************************************************************)
(* Claims about the knowledge base (checked under SpecKb)                  *)
(***************************************************************************)
LookedUp == call.op = "get_information"
TopLevelNames == {"courses", "admission_process", "facilities", "placement_stats"}
\* the names of the subcategories of a category, read from the table
SubcategoryNames(category) ==
    LET d == Get(knowledge_base, category)
    IN  {d.v[i][1] : i \in 1..Len(d.v)}

\* C12: for every category name that is not a top-level key of the knowledge
\* base, get_information returns failure with available_categories equal to
\* the set of top-level category names (courses, admission_process, facilities,
\* placement_stats), whatever subcategory was passed.
C12_UnknownCategory ==
    (LookedUp /\ call.arg[1] \notin TopLevelNames) =>
        /\ ~ret.success
        /\ "data" \notin DOMAIN ret
        /\ "available_categories" \in DOMAIN ret
        /\ Len(ret.available_categories) = 4
        /\ {ret.available_categories[i] : i \in 1..Len(ret.available_categories)}
            = TopLevelNames

C12_Witness ==
    /\ LookedUp
    /\ call.arg = <<"nonexistent_category", Some("btech")>>
    /\ ~ret.success
    /\ ret.available_categories
        = <<"courses", "admission_process", "facilities", "placement_stats">>

\* C13: for a known category, get_information succeeds with exactly the entry
\* of the subcategory when the subcategory exists within the category
\* (courses/btech has duration "4 years"), and succeeds with the full subtree
\* of the category when the subcategory is omitted, empty or absent from that
\* category; it never fails for a known category.
C13_KnownCategory ==
    (LookedUp /\ call.arg[1] \in TopLevelNames) =>
        LET category == call.arg[1]
            subcategory == call.arg[2]
            exists == /\ subcategory # None
                      /\ subcategory[1] \in SubcategoryNames(category)
        IN  /\ ret.success
            /\ ret.category = category
            /\ exists =>
                /\ ret.data = Get(Get(knowledge_base, category), subcategory[1])
                /\ ret.subcategory = subcategory[1]
            /\ ~exists =>
                /\ ret.data = Get(knowledge_base, category)
                /\ "subcategory" \notin DOMAIN ret
            /\ call.arg = <<"courses", Some("btech")>> =>
                /\ ret.data.t = "dict"
                /\ \E i \in 1..Len(ret.data.v) :
                        ret.data.v[i] = <<"duration", [t |-> "str", v |-> "4 years"]>>

C13_Witness ==
    /\ LookedUp
    /\ call.arg = <<"courses", Some("btech")>>
    /\ ret.success
    /\ ret.subcategory = "btech"
    /\ Get(ret.data, "duration") = S("4 years")
    /\ Get(ret.data, "full_name") = S("Bachelor of Technology")

Searched == call.op = "search_information"
\* the place of a hit in the iteration order of the knowledge base
EntryIndex(hit) ==
    CHOOSE e \in 1..Len(Entries) :
        /\ Entries[e].category = hit.category
        /\ Entries[e].subcategory = hit.subcategory
\* the words of the query that occur in the searchable text of an entry
MatchedWords(words, e) ==
    Cardinality({k \in 1..Len(words) : Contains(Entries[e].searchable_text, words[k])})

\* C14: for every query, search_information returns at most 5 hits, ordered by
\* non-increasing relevance with ties kept in the insertion order of the
\* knowledge base; every returned hit has relevance = matchedWords / |words(q)|
\* with matchedWords >= 1 (so relevance is in (0, 1]), and no entry with zero
\* matched words is returned.
C14_SearchShape ==
    Searched =>
        LET words == split(lower(call.arg))
        IN  /\ Len(ret) <= 5
            /\ \A i \in 1..Len(ret) :
                /\ ret[i].words = Len(words)
                /\ ret[i].matches = MatchedWords(words, EntryIndex(ret[i]))
                /\ ret[i].matches >= 1
                /\ ret[i].matches <= ret[i].words
                /\ ret[i].data = Entries[EntryIndex(ret[i])].data
            /\ \A i, j \in 1..Len(ret) :
                i < j =>
                    /\ ret[i].matches * ret[j].words >= ret[j].matches * ret[i].words
                    /\ ret[i].matches * ret[j].words = ret[j].matches * ret[i].words
                        => EntryIndex(ret[i]) < EntryIndex(ret[j])

\* 'a books': more than five entries contain 'a'; the library entry, the only
\* one that contains both words, comes first, the ties follow in insertion order
C14_Witness ==
    /\ Searched
    /\ call.arg = "a books"
    /\ Len(ret) = 5
    /\ ret[1].subcategory = "library"
    /\ ret[1].matches = 2
    /\ <<ret[2].subcategory, ret[3].subcategory, ret[4].subcategory, ret[5].subcategory>>
        = <<"btech", "mtech", "mba", "application_period">>
    /\ \A i \in 2..5 : ret[i].matches = 1 /\ ret[i].words = 2

(***************************************************************************)
(* Claims about the response generator (checked under SpecGen)             *)
(***************************************************************************)
Generated == call.op = "generate_response"
\* the branches of generate_response that read the query
ReadsQuery(intent) ==
    intent \notin {"admission_inquiry", "placement_inquiry", "hostel_accommodation",
                   "campus_facilities"}
\* the call hit an internal failure: its branch reads a query that is no string
InternalFailure == Generated /\ ReadsQuery(call.arg[1]) /\ ~call.arg[2].isStr

NamedCourses(query_lower) ==
    {c \in {"btech", "mtech", "mba"} :
        \E alias \in (CASE c = "btech" -> {"btech", "b.tech", "bachelor", "engineering"}
                       [] c = "mtech" -> {"mtech", "m.tech", "master", "technology"}
                       [] c = "mba" -> {"mba", "management", "business"}) :
            Contains(query_lower, alias)}

\* What holds of C16 for the response generator: for a fee_inquiry whose query
\* names the aliases of one course, the response contains the fee_range of that
\* course ("2-3 lakh per year" for "What is the fee for mtech").
C16_GeneratorFee ==
    (Generated /\ call.arg[1] = "fee_inquiry" /\ call.arg[2].isStr) =>
        LET named == NamedCourses(lower(call.arg[2].str))
        IN  /\ \A c \in named :
                named = {c} =>
                    Contains(ret, Get(Get(Get(knowledge_base, "courses"), c),
                                      "fee_range").v)
            /\ call.arg[2].str = "What is the fee for mtech" =>
                    Contains(ret, "2-3 lakh per year")

\* C16: for the message "What is the fee for mtech" the response produced for
\* the message contains the fee_range text of the course, "2-3 lakh per year".
C16_FeeEndToEnd ==
    (/\ pc = "done"
     /\ message_text = Some("What is the fee for mtech")
     /\ response.status = 200
     /\ response.body.language = "en") =>
        Contains(response.body.message, "2-3 lakh per year")

(***************************************************************************)
(* Claims about send_message (checked under Spec, C4 under SpecFault)      *)
(***************************************************************************)
Called(label) == \E i \in 1..Len(trace) : trace[i] = label
Count(label) == Cardinality({i \in 1..Len(trace) : trace[i] = label})

\* the run has classified its message: intent_result holds the result
Classified == Called("classify_intent")
\* the request passed the validation of lines 35-40
ValidMessage == message_text # None /\ message_text # Some("")
InDomain == Classified /\ intent_result.is_college_related
OutOfDomain == Classified /\ ~intent_result.is_college_related
EngineFailed == Called("rasa_send_message") /\ ~rasa_response.success

\* C1: for every request with a non-empty message that is classified as not
\* college related, send_message returns the fixed restricted-topic message
\* (translated only when the target language is not 'en'), marked as
\* restricted, and the run calls neither the response generator nor the engine.
C1_RestrictedReply ==
    (pc = "done" /\ OutOfDomain) =>
        /\ response.status = 200
        /\ response.body.success
        /\ "restricted" \in DOMAIN response.body
        /\ response.body.restricted
        /\ response.body.message
            \in (IF response.body.language = "en" THEN {restricted_response}
                 ELSE {restricted_response,
                       Translated(restricted_response, "en", response.body.language)})
        /\ ~Called("generate_response")
        /\ ~Called("generate_default_response")
        /\ ~Called("rasa_send_message")

\* What holds of C1 on every run, the ones whose commit raises included: a
\* message classified as not college related reaches neither the response
\* generator nor the engine, and a successful reply to it is the restricted one.
C1_GateMakesNoCall ==
    OutOfDomain =>
        /\ ~Called("generate_response")
        /\ ~Called("generate_default_response")
        /\ ~Called("rasa_send_message")
        /\ (pc = "done" /\ response.status = 200) =>
                /\ "restricted" \in DOMAIN response.body
                /\ response.body.restricted

\* C2: for every in-domain classification, send_message takes the
\* local-generation branch (response from generate_response, response source
\* college_ai, engine not called) iff confidence >= 0.7, 0.7 included; for every
\* in-domain confidence below 0.7 the engine is called instead.
C2_RoutingBoundary ==
    (InDomain /\ pc # "route") =>
        LET high == intent_result.confidence >= 14
        IN  /\ high <=> response_source = Some("college_ai")
            /\ high <=> Called("generate_response")
            /\ high <=> ~Called("rasa_send_message")
            /\ high => /\ rasa_intent = Some(intent_result.intent)
                       /\ rasa_confidence = Some(intent_result.confidence)
            /\ (high /\ pc = "translate") =>
                    bot_response_text
                        = Some(generate_response(intent_result.intent,
                                [isStr |-> TRUE, str |-> message_text[1]]))
            /\ (pc = "done" /\ response.status = 200) =>
                    (response.body.response_source = "college_ai"
                        <=> response.body.college_confidence >= 14)

\* a confidence of exactly 0.7 is answered by the response generator
C2_Witness ==
    /\ pc = "done"
    /\ InDomain
    /\ intent_result.confidence = 14
    /\ response.status = 200
    /\ response.body.response_source = "college_ai"
    /\ ~Called("rasa_send_message")

\* C3: for every in-domain request with confidence < 0.7, when the engine
\* adapter reports failure, the pipeline returns the default response of the
\* response generator (non-empty) with response source college_ai_fallback,
\* intent 'fallback' and confidence 0.5, and no fault reaches the caller.
C3_EngineFailureFallback ==
    (pc = "done" /\ InDomain /\ intent_result.confidence < 14 /\ EngineFailed) =>
        /\ response.status = 200
        /\ response.body.success
        /\ response.body.message # ""
        /\ response.body.message
            \in {generate_default_response,
                 Translated(generate_default_response, "en", response.body.language)}
        /\ response.body.response_source = "college_ai_fallback"
        /\ response.body.intent = Some("fallback")
        /\ response.body.confidence = Some(10)

\* What holds of C3 on every run: on a failure of the engine adapter the route
\* chooses the default response, 'fallback', 0.5 and college_ai_fallback, and
\* that is what a successful reply carries.
C3_FallbackChosen ==
    (InDomain /\ intent_result.confidence < 14 /\ EngineFailed) =>
        /\ response_source = Some("college_ai_fallback")
        /\ rasa_intent = Some("fallback")
        /\ rasa_confidence = Some(10)
        /\ pc = "translate" => bot_response_text = Some(generate_default_response)
        /\ (pc = "done" /\ response.status = 200) =>
                response.body.response_source = "college_ai_fallback"

\* a statement of the confidence >= 0.7 branch raised, and the handler of
\* lines 171-190 has run
FaultedHigh ==
    /\ pc = "translate"
    /\ raised = Some("ai_error")
    /\ InDomain
    /\ intent_result.confidence >= 14

C5_AlwaysAReply ==
    (pc = "done" /\ ValidMessage) =>
        /\ response.status = 200
        /\ response.body.success
        /\ response.body.message # ""

\* C6: when committing the records fails after the response text has been
\* chosen, the caller still receives that response text as a successful result.
C6_PersistenceFailureNonFatal ==
    (pc = "done" /\ Called("commit") /\ raised = Some("OperationalError")) =>
        /\ response.status = 200
        /\ response.body.success
        /\ bot_response_text # None => response.body.message = bot_response_text[1]

RoutingCalls == {"generate_response", "rasa_send_message", "generate_default_response"}
RunningPcs ==
    {"validate", "resolve_language", "open_session", "classify", "restricted",
     "route", "translate", "persist", "except"}

\* the run in progress has a next step: the classification and the local
\* generation are total functions of their inputs, so their steps are enabled
\* whenever their guards hold; the other steps are asked of ENABLED
HasNextStep ==
    \/ pc = "classify" /\ ValidMessage
    \/ pc = "route" /\ IsHighConfidence(intent_result)
    \/ ENABLED (\/ Validate
                \/ ResolveLanguage
                \/ OpenSession
                \/ Restricted
                \/ RouteEngine
                \/ TranslateReply
                \/ Persist
                \/ HandleError)

IsRestrictedOutcome == response.status = 200 /\ "restricted" \in DOMAIN response.body
IsRoutedOutcome ==
    /\ response.status = 200
    /\ "response_source" \in DOMAIN response.body
    /\ response.body.response_source \in {"college_ai", "rasa", "college_ai_fallback"}
IsErrorOutcome == response.status = 500

\* C7: a run on a valid message resolves the language, then classifies, then
\* gives the restricted reply (out of domain) or routes (in domain), then
\* translates the chosen text, then emits the result: no generator or engine
\* call precedes the classification, the translation of the reply precedes no
\* routing call, every stage is entered at most once, a run in progress always
\* has a next step, and a finished run has exactly one outcome (restricted, one
\* routed response source, or error).
C7_PipelineOrder ==
    /\ \A j \in 1..Len(trace) :
        /\ trace[j] = "classify_intent" =>
                \E i \in 1..(j - 1) : trace[i] = "detect_language"
        /\ trace[j] \in RoutingCalls \cup {"translate_for_rasa"} =>
                /\ \E i \in 1..(j - 1) : trace[i] = "classify_intent"
                /\ intent_result.is_college_related
        /\ trace[j] = "translate_from_rasa" =>
                /\ \E i \in 1..(j - 1) : trace[i] = "classify_intent"
                /\ intent_result.is_college_related =>
                        \E i \in 1..(j - 1) :
                            trace[i] \in {"generate_response", "rasa_send_message"}
                /\ \A k \in (j + 1)..Len(trace) :
                        trace[k] \notin RoutingCalls
                                        \cup {"classify_intent", "detect_language",
                                              "translate_for_rasa"}
        /\ trace[j] = "commit" => \A k \in (j + 1)..Len(trace) : trace[k] = "rollback"
    /\ \A stage \in {"detect_language", "classify_intent", "generate_response",
                      "rasa_send_message", "generate_default_response",
                      "translate_from_rasa", "commit", "rollback"} :
            Count(stage) <= 1
    /\ pc = "restricted" => OutOfDomain
    /\ pc = "route" => InDomain
    /\ pc \in RunningPcs => HasNextStep
    /\ (pc = "done" /\ ValidMessage) =>
        /\ Cardinality({o \in {"restricted", "routed", "error"} :
                \/ o = "restricted" /\ IsRestrictedOutcome
                \/ o = "routed" /\ IsRoutedOutcome
                \/ o = "error" /\ IsErrorOutcome}) = 1
        /\ IsRestrictedOutcome => OutOfDomain /\ Count("commit") = 1
        /\ IsRoutedOutcome =>
                /\ InDomain
                /\ Count("commit") = 1
                /\ response.body.message = bot_response_text[1]
                /\ response.body.response_source = response_source[1]

\* a run that was routed to the engine, translated its reply and was emitted
C7_Witness ==
    /\ pc = "done"
    /\ IsRoutedOutcome
    /\ trace = <<"detect_language", "classify_intent", "translate_for_rasa",
                 "translator.translate", "rasa_send_message", "translate_from_rasa",
                 "translator.translate", "commit">>

\* the language of the request has been resolved (lines 43-51 have run)
LanguageResolved == preferred_language # None /\ detected_language # None

\* C17: when the caller declares the language as 'auto' or declares no language
\* at all (the key is missing or null), the target language of the pipeline is
\* the detected language of the message; when the caller declares any other
\* language, that language is the target.
C17_LanguageResolution ==
    LanguageResolved =>
        IF data.language \in {None, Some(None), Some(Some("auto"))}
        THEN preferred_language = detected_language
        ELSE preferred_language = data.language[1]

\* What holds of C17 on every run: a declared 'auto' or null gives the detected
\* language, a missing key gives 'en', any other declared language is kept.
C17_ResolutionAsCoded ==
    LanguageResolved =>
        IF data.language \in {Some(None), Some(Some("auto"))}
        THEN preferred_language = detected_language
        ELSE IF data.language = None
        THEN preferred_language = Some("en")
        ELSE preferred_language = data.language[1]

\* the text the route chose, before the translation of lines 194-198
ChosenText ==
    CASE response_source = Some("college_ai") ->
            generate_response(intent_result.intent,
                              [isStr |-> TRUE, str |-> message_text[1]])
      [] response_source = Some("rasa") -> rasa_response.message
      [] response_source = Some("college_ai_fallback") -> generate_default_response
\* the run was routed and is past the translation of the reply
PastTranslation == InDomain /\ pc \in {"persist", "except", "done"}

\* C18: the chosen response text is passed to the translation backend iff the
\* target language differs from 'en'; when the target is 'en' the text is
\* returned unchanged, and when the translation backend fails the untranslated
\* text is returned and the request still completes successfully.
C18_TranslationFailSoft ==
    (PastTranslation /\ pc = "done") =>
        LET lang == preferred_language[1]
        IN  /\ Called("translate_from_rasa") <=> lang # "en"
            /\ lang = "en" =>
                /\ response.status = 200
                /\ response.body.message = ChosenText
            /\ (lang # "en" /\ bot_response_text = Some(ChosenText)) =>
                /\ response.status = 200
                /\ response.body.success
                /\ response.body.message = ChosenText

\* What holds of C18 on every run: the backend is called iff the target is not
\* 'en', at most once; the text after the stage is the chosen text (target 'en',
\* or the backend failed) or its translation; the stage raises nothing (the run
\* reaches the handler of line 254 only from the commit), and a successful
\* reply carries the text of the stage.
C18_TranslationStage ==
    PastTranslation =>
        LET lang == preferred_language[1]
        IN  /\ Called("translate_from_rasa") <=> lang # "en"
            /\ Count("translate_from_rasa") <= 1
            /\ lang = "en" => bot_response_text = Some(ChosenText)
            /\ lang # "en" =>
                    bot_response_text
                        \in {Some(ChosenText), Some(Translated(ChosenText, "en", lang))}
            /\ pc = "except" => raised = Some("OperationalError") /\ Called("commit")
            /\ (pc = "done" /\ response.status = 200) =>
                    response.body.message = bot_response_text[1]

\* C19: for every in-domain request with confidence < 0.7 for which the engine
\* adapter succeeds, the text, the intent and the confidence of the result are
\* the ones the engine returned and the response source is 'rasa'; an engine
\* confidence of 0, or an engine intent that is present, is reported as is and
\* is not replaced by the value of the local classifier.
C19_EngineSuccess ==
    (/\ pc = "translate"
     /\ InDomain
     /\ intent_result.confidence < 14
     /\ Called("rasa_send_message")
     /\ rasa_response.success) =>
        /\ bot_response_text = Some(rasa_response.message)
        /\ response_source = Some("rasa")
        /\ rasa_response.intent # None => rasa_intent = rasa_response.intent
        /\ rasa_response.confidence # None => rasa_confidence = rasa_response.confidence

\* What holds of C19 on every run: the text is the text of the engine and the
\* source is 'rasa'; an intent that is not '' and a confidence that is not 0
\* are the ones of the engine, the others are the ones of the local classifier.
C19_EngineSuccessAsCoded ==
    (/\ pc = "translate"
     /\ InDomain
     /\ intent_result.confidence < 14
     /\ Called("rasa_send_message")
     /\ rasa_response.success) =>
        /\ bot_response_text = Some(rasa_response.message)
        /\ response_source = Some("rasa")
        /\ rasa_intent = (IF rasa_response.intent \in {None, Some("")}
                          THEN Some(intent_result.intent) ELSE rasa_response.intent)
        /\ rasa_confidence = (IF rasa_response.confidence \in {None, Some(0)}
                              THEN Some(intent_result.confidence)
                              ELSE rasa_response.confidence)

C20_NoRetriesWithoutFault ==
    /\ Count("rasa_send_message") <= 1
    /\ Count("translate_for_rasa") <= 1
    /\ Count("translate_from_rasa") <= 1
    /\ EngineFailed => Called("generate_default_response")
    /\ raised # Some("ai_error")

NoPayload == data.isNone
NoMessageField == ~data.isNone /\ (IsArray(data) \/ data.message = None)
EmptyMessage ==
    /\ ~data.isNone
    /\ ~IsArray(data)
    /\ data.message # None
    /\ data.message[1].isStr
    /\ \A i \in 1..Len(data.message[1].str) :
            SubSeq(data.message[1].str, i, i) \in {" ", "\t", "\n", "\r"}
\* the run was rejected by the validation, and nothing else was done
RejectedAtOnce ==
    /\ response.status = 400
    /\ "error" \in DOMAIN response.body
    /\ trace = <<>>
    /\ staged = {}
    /\ detected_language = None
    /\ intent_result = None
    /\ bot_response_text = None

\* C22: a request with no payload, no message field, or a message that is
\* empty after stripping whitespace is rejected with an explicit validation
\* error before any language detection, classification, engine call, generation
\* or persistence of records takes place.
C22_ValidationFirst ==
    (pc = "done" /\ (NoPayload \/ NoMessageField \/ EmptyMessage)) => RejectedAtOnce

\* What holds of C22 on every run: a payload that is None, an empty array, an
\* array without the item 'message', a dict without the key 'message', or a
\* dict whose message is empty after strip() is rejected at once with 400.
C22_ValidationOfObjects ==
    (/\ pc = "done"
     /\ \/ NoPayload
        \/ NoMessageField /\ ~(IsArray(data) /\ HasMessage(data))
        \/ EmptyMessage) =>
        /\ RejectedAtOnce
        /\ response.body.error
            = (IF EmptyMessage THEN "Message cannot be empty" ELSE "Message is required")

\* the text of the entry a hit was made from
HitText(hit) == Entries[EntryIndex(hit)].searchable_text
\* the distinct words of a query
DistinctWords(words) == {words[k] : k \in 1..Len(words)}

\* C23 (as stated): the match count of an entry is the number of distinct
\* query words that occur in the entry's serialized text, so a word repeated
\* in the query is counted once, and relevance = that count / |queryWords|.
C23_CountsDistinctWords ==
    Searched =>
        LET words == split(lower(call.arg))
        IN  \A i \in 1..Len(ret) :
                /\ ret[i].matches
                    = Cardinality({w \in DistinctWords(words) : Contains(HitText(ret[i]), w)})
                /\ ret[i].words = Len(words)

\* C23 (as the code counts): the match count of an entry is the number of
\* words of the query, a repeated word taken as often as it is repeated, that
\* occur in the entry's serialized text; relevance = that count / |queryWords|
\* with |queryWords| the length of the word list, repeated words included.
C23_CountsEveryOccurrence ==
    Searched =>
        LET words == split(lower(call.arg))
        IN  \A i \in 1..Len(ret) :
                /\ ret[i].matches
                    = Cardinality({k \in 1..Len(words) : Contains(HitText(ret[i]), words[k])})
                /\ ret[i].words = Len(words)

\* a query with a repeated word, and a hit that counts it twice
C23_Witness ==
    /\ Searched
    /\ call.arg = "year year books"
    /\ \E i \in 1..Len(ret) :
            /\ Contains(HitText(ret[i]), "year")
            /\ ~Contains(HitText(ret[i]), "books")
            /\ ret[i].matches = 2
            /\ ret[i].words = 3

\* the intents with a path of their own in generate_response
DedicatedIntents ==
    {"admission_inquiry", "course_information", "fee_inquiry",
     "placement_inquiry", "hostel_accommodation", "campus_facilities"}
FallbackCall == Generated /\ call.arg[1] \notin DedicatedIntents
\* the hits of search_information for the query of the call
FoundFor(query) == IF query.isStr THEN search_information(query.str) ELSE <<>>
\* the heading of the i-th block of a summary
BlockHeading(i, hit) == ToString(i) \o ". " \o title(hit.category) \o ":\n"
\* the first n elements of a list, as the summary writes them
Listed(v, n) == Join(SubSeq(v, 1, Min(n, Len(v))), ", ", "", 1)

\* C24: for every intent other than the six with a dedicated path,
\* generate_response returns the search-based summary if and only if
\* search_information(text) has at least one hit, and the fixed default
\* response otherwise; the summary has a block for each of the first 3 hits and
\* for no other, and writes the first 3 elements of a list-valued field and no
\* more.
C24_TwoLevelFallback ==
    FallbackCall =>
        LET hits == FoundFor(call.arg[2])
        IN  IF hits = <<>>
            THEN ret = generate_default_response
            ELSE /\ ret # generate_default_response
                 /\ Contains(ret, "Here's what I found related to '" \o call.arg[2].str \o "'")
                 /\ \A i \in 1..Len(hits) :
                        Contains(ret, BlockHeading(i, hits[i])) <=> i <= 3
                 /\ \A i \in 1..Min(3, Len(hits)) :
                        hits[i].data.t = "dict" =>
                            \A f \in 1..Len(hits[i].data.v) :
                                LET value == hits[i].data.v[f][2]
                                IN  value.t = "list" =>
                                        /\ Contains(ret, ": " \o Listed(value.v, 3) \o "\n")
                                        /\ Len(value.v) > 3 =>
                                                ~Contains(ret, Listed(value.v, 4))

\* a summary of a search with five hits, the second with a list of five
C24_Witness ==
    /\ FallbackCall
    /\ call.arg[2] = [isStr |-> TRUE, str |-> "a books"]
    /\ Len(FoundFor(call.arg[2])) = 5
    /\ Contains(ret, "3. Courses:")
    /\ ~Contains(ret, "4. ")
    /\ Contains(ret, "Specializations: Computer Science, Electronics, Mechanical\n")

Extracted == call.op = "extract_course_from_query"
BtechAliases == {"btech", "b.tech", "bachelor", "engineering"}
MtechAliases == {"mtech", "m.tech", "master", "technology"}
MbaAliases == {"mba", "management", "business"}
Names(text, aliases) == \E alias \in aliases : Contains(lower(text), alias)

\* C25: for every text, _extract_course_from_query returns btech if the
\* lower-cased text contains a btech alias, else mtech if it contains an mtech
\* alias, else mba if it contains an mba alias, else the default btech; the
\* code returned is always a key of 'courses' in the knowledge base.
C25_CourseExtraction ==
    Extracted =>
        /\ ret = (IF Names(call.arg, BtechAliases) THEN "btech"
                  ELSE IF Names(call.arg, MtechAliases) THEN "mtech"
                  ELSE IF Names(call.arg, MbaAliases) THEN "mba"
                  ELSE "btech")
        /\ ret \in {"btech", "mtech", "mba"}
        /\ HasKey(Get(store.knowledge_base, "courses"), ret)
        /\ get_information("courses", Some(ret)).success
        /\ "subcategory" \in DOMAIN get_information("courses", Some(ret))

\* a text with an alias of mtech and an alias of mba: mtech is returned
C25_Witness ==
    /\ Extracted
    /\ Names(call.arg, MtechAliases)
    /\ Names(call.arg, MbaAliases)
    /\ ~Names(call.arg, BtechAliases)
    /\ ret = "mtech"

\* the records of request n among a set of records
RecordsOf(records, n) ==
    {r \in records : r.kind \in {"message", "session_update", "analytics"} /\ r.request = n}
\* the user message and the bot message of request n
Exchange(sid, n) == {MessageRecord(sid, TRUE, n), MessageRecord(sid, FALSE, n)}

\* C26: the records staged during one send_message run are committed together
\* in a single commit at the end of the run (nothing of the run is committed
\* while it is in progress; a finished successful run has committed its session,
\* its user message and its bot message, and its analytics when it was routed,
\* with one commit as its last step); a run that ends in the internal-error
\* outcome has rolled back and committed none of its records; and no user
\* message is ever committed without its bot reply.
C26_AtomicExchange ==
    /\ \A r \in committed :
            /\ (r.kind = "message" /\ r.is_user_message) =>
                    MessageRecord(r.session_id, FALSE, r.request) \in committed
            /\ r.kind = "session" =>
                    \E n \in 1..nreq : Exchange(r.id, n) \subseteq committed
    /\ pc \in RunningPcs => RecordsOf(committed, nreq) = {}
    /\ Count("commit") <= 1
    /\ pc \in {"idle", "done"} => staged = {}
    /\ (pc = "done" /\ response.status = 200) =>
            /\ Count("commit") = 1
            /\ trace[Len(trace)] = "commit"
            /\ SessionExists(session_id[1])
            /\ Exchange(session_id[1], nreq) \subseteq committed
            /\ IsRoutedOutcome =>
                    {SessionUpdate(session_id[1], nreq),
                     AnalyticsRecord(session_id[1], nreq)} \subseteq committed
    /\ (pc = "done" /\ response.status # 200) =>
            /\ RecordsOf(committed, nreq) = {}
            /\ session_id # None =>
                    (SessionExists(session_id[1]) =>
                        \E n \in 1..(nreq - 1) : Exchange(session_id[1], n) \subseteq committed)

\* the second run staged its records, its commit failed and it was rolled back:
\* the exchange of the first run is committed whole, nothing of the second is
C26_Witness ==
    /\ pc = "done"
    /\ nreq = 2
    /\ response.status = 500
    /\ Called("commit")
    /\ trace[Len(trace)] = "rollback"
    /\ RecordsOf(committed, 1) # {}
    /\ \E r \in committed : r.kind = "analytics"
    /\ RecordsOf(committed, 2) = {}
    /\ ~SessionExists(session_id[1])

====
